---------------------------- MODULE Spec2Model ----------------------------
(***************************************************************************)
(* Model of pareto_estimators.py: the measure_time decorator and its       *)
(* accumulation dictionary results_dict, the seven closed-form Pareto      *)
(* estimators, the module-level experiment loop and the aggregation loop   *)
(* that builds avg_results.                                                *)
(*                                                                         *)
(* Floating-point numbers are modelled as fixed-point integers (value      *)
(* times Scale) together with the IEEE special values inf, -inf and nan,   *)
(* which numpy float64 arithmetic produces (with a warning, not an         *)
(* exception) on division by zero and on invalid operations.               *)
(***************************************************************************)
EXTENDS Integers, Sequences, FiniteSets

VARIABLES
    results_dict,   \* the global dict: estimator name -> list of [result, duration]
    key_order,      \* insertion order of the keys of results_dict
    pareto_data,    \* the caller's sample array
    last,           \* outcome of the most recent wrapped call, as the caller sees it
    pc,             \* position of the module-level script
    experiment,     \* loop variable of the outer loop
    fidx,           \* position of the inner loop in function_names (1-based)
    draws,          \* number of get_pareto_data calls so far
    used,           \* samples handed to estimators in the current experiment
    avg_results,    \* the aggregation dict: short name -> [average, std, max]
    agg_pos,        \* position of the aggregation loop in the keys of results_dict
    tfn,            \* graphs_tables: the table function that was called
    params,         \* graphs_tables: list of parameter sets [alpha, gamma]
    sample_sizes,   \* graphs_tables: list of sample sizes
    pickles,        \* graphs_tables: contents of the errors_params_* files
    results,        \* graphs_tables: the local dict of the table function
    tex_file,       \* graphs_tables: what has been written to file_name
    tpc,            \* graphs_tables: position inside the table function
    size_i,         \* graphs_tables: position of the loop over sample_sizes
    parset_j        \* graphs_tables: position of the loop over params

vars == <<results_dict, key_order, pareto_data, last, pc, experiment, fidx,
          draws, used, avg_results, agg_pos, tfn, params, sample_sizes, pickles,
          results, tex_file, tpc, size_i, parset_j>>

\* the variables of graphs_tables.py
tvars == <<tfn, params, sample_sizes, pickles, results, tex_file, tpc, size_i,
           parset_j>>

---------------------------------------------------------------------------
(* Bounds of the model *)

\* number of experiments of the script (experiments_number is 10000), scaled down
MaxExperiments == 2
\* size of a sample of the script (data_quantity is 50), scaled down
MaxData == 2
\* number of entries of function_names the script's loop runs over
MaxFunctions == 2
\* the samples of the script take values pareto_location .. pareto_location + MaxSpread
MaxSpread == 1
\* measured durations are 1 .. MaxDuration clock ticks
MaxDuration == 2
\* direct calls of wrapped estimators: number of calls, sample length, sample values
MaxCalls == 2
MaxCallLen == 2
MaxCallVal == 1
\* estimator inputs: sample length and sample values
MaxLen == 3
MaxVal == 4

(* Program constants *)
pareto_shape == 5
pareto_location == 3

\* resolution of the fixed-point representation of a float64
Scale == 1000

---------------------------------------------------------------------------
(* float64 values *)

Fin(v) == [k |-> "fin", v |-> v]
PInf == [k |-> "inf", v |-> 0]
NInf == [k |-> "ninf", v |-> 0]
NaN == [k |-> "nan", v |-> 0]

FromInt(i) == Fin(i * Scale)

IsFinite(x) == x.k = "fin"

Abs(i) == IF i < 0 THEN -i ELSE i
Sign(i) == IF i < 0 THEN -1 ELSE IF i > 0 THEN 1 ELSE 0

\* sign of a float64: -1, 0 or 1 (nan excluded by the callers)
FSign(x) == IF x.k = "inf" THEN 1 ELSE IF x.k = "ninf" THEN -1 ELSE Sign(x.v)

SignedInf(s) == IF s > 0 THEN PInf ELSE NInf

\* integer quotient rounded towards zero
Quot(a, b) == Sign(a) * Sign(b) * (Abs(a) \div Abs(b))

FNeg(x) ==
    CASE x.k = "fin" -> Fin(-x.v)
      [] x.k = "inf" -> NInf
      [] x.k = "ninf" -> PInf
      [] OTHER -> NaN

FAdd(x, y) ==
    CASE x.k = "nan" \/ y.k = "nan" -> NaN
      [] x.k = "fin" /\ y.k = "fin" -> Fin(x.v + y.v)
      [] x.k = "fin" -> y
      [] y.k = "fin" -> x
      [] x.k = y.k -> x
      [] OTHER -> NaN

FSub(x, y) == FAdd(x, FNeg(y))

FMul(x, y) ==
    CASE x.k = "nan" \/ y.k = "nan" -> NaN
      [] x.k = "fin" /\ y.k = "fin" -> Fin(Quot(x.v * y.v, Scale))
      [] FSign(x) = 0 \/ FSign(y) = 0 -> NaN
      [] OTHER -> SignedInf(FSign(x) * FSign(y))

\* numpy float64 division: x/0 is inf, -inf or nan, never an exception
FDiv(x, y) ==
    CASE x.k = "nan" \/ y.k = "nan" -> NaN
      [] x.k = "fin" /\ y.k = "fin" ->
            IF y.v = 0
            THEN IF x.v = 0 THEN NaN ELSE SignedInf(Sign(x.v))
            ELSE Fin(Quot(x.v * Scale, y.v))
      [] x.k = "fin" -> Fin(0)
      [] y.k = "fin" -> SignedInf(FSign(x) * (IF y.v < 0 THEN -1 ELSE 1))
      [] OTHER -> NaN

FLeq(x, y) ==
    CASE x.k = "nan" \/ y.k = "nan" -> FALSE
      [] x.k = "fin" /\ y.k = "fin" -> x.v <= y.v
      [] x.k = "ninf" \/ y.k = "inf" -> TRUE
      [] OTHER -> FALSE

\* floor of the square root of a natural number, by Newton's iteration
RECURSIVE Newton(_, _)
Newton(n, r) ==
    LET r2 == (r + n \div r) \div 2
    IN  IF r2 >= r THEN r ELSE Newton(n, r2)

ISqrt(n) == IF n = 0 THEN 0 ELSE Newton(n, n)

\* np.sqrt
FSqrt(x) ==
    CASE x.k = "fin" -> IF x.v < 0 THEN NaN ELSE Fin(ISqrt(x.v * Scale))
      [] x.k = "inf" -> PInf
      [] OTHER -> NaN

\* sum of z^(2i+1)/(2i+1) for i = 0..n, in fixed point; zp is z^(2i+1)
RECURSIVE AtanhSeries(_, _, _, _)
AtanhSeries(zp, z2, i, n) ==
    IF i > n THEN 0
    ELSE Quot(zp, 2 * i + 1) + AtanhSeries(Quot(zp * z2, Scale), z2, i + 1, n)

\* natural logarithm of a positive fixed-point number: 2 * atanh((x-1)/(x+1))
LnFixed(v) ==
    LET z == Quot((v - Scale) * Scale, v + Scale)
    IN  2 * AtanhSeries(z, Quot(z * z, Scale), 0, 12)

\* np.log
FLog(x) ==
    CASE x.k = "fin" ->
            IF x.v < 0 THEN NaN ELSE IF x.v = 0 THEN NInf ELSE Fin(LnFixed(x.v))
      [] x.k = "inf" -> PInf
      [] OTHER -> NaN

\* sum of y^i/i! for i = i0..n, in fixed point; term is y^i0/i0!
RECURSIVE ExpSeries(_, _, _, _)
ExpSeries(term, y, i, n) ==
    IF i > n THEN 0
    ELSE term + ExpSeries(Quot(term * y, Scale * (i + 1)), y, i + 1, n)

ExpFixed(y) == ExpSeries(Scale, y, 0, 10)

\* base ** e for a finite base with 0 < base < 1: exp(e * ln(base))
FPow(base, e) ==
    CASE e.k = "nan" \/ base.k # "fin" -> NaN
      [] e.k = "fin" -> Fin(ExpFixed(Quot(e.v * LnFixed(base.v), Scale)))
      [] e.k = "inf" -> Fin(0)
      [] OTHER -> PInf

\* x ** -1 for a numpy float64 x
FRecip(x) == FDiv(FromInt(1), x)

---------------------------------------------------------------------------
(* Arrays and the library reductions the estimators use *)

\* the float64 array holding the integer values of s
ArrayOf(s) == [i \in 1..Len(s) |-> FromInt(s[i])]

RECURSIVE FSum(_)
\* np.sum: 0.0 for an empty array
FSum(a) == IF Len(a) = 0 THEN Fin(0) ELSE FAdd(a[1], FSum(Tail(a)))

RECURSIVE MinOf(_)
\* least element of a non-empty array of finite values
MinOf(a) ==
    IF Len(a) = 1 THEN a[1]
    ELSE LET m == MinOf(Tail(a)) IN IF FLeq(a[1], m) THEN a[1] ELSE m

RECURSIVE MaxOf(_)
\* greatest element of a non-empty array of finite values
MaxOf(a) ==
    IF Len(a) = 1 THEN a[1]
    ELSE LET m == MaxOf(Tail(a)) IN IF FLeq(m, a[1]) THEN a[1] ELSE m

\* array / scalar: a new array, the operand is left as it is
ArrayDiv(a, x) == [i \in 1..Len(a) |-> FDiv(a[i], x)]

ArrayLog(a) == [i \in 1..Len(a) |-> FLog(a[i])]

\* np.mean: sum / n, nan for an empty array
Mean(a) == FDiv(FSum(a), FromInt(Len(a)))

\* np.var and np.std: mean of the squared deviations from the mean (ddof = 0)
Var(a) ==
    LET m == Mean(a)
        d == [i \in 1..Len(a) |-> FMul(FSub(a[i], m), FSub(a[i], m))]
    IN  Mean(d)

\* scipy.stats.hmean: n / sum(1 / a)
HMean(a) == FDiv(FromInt(Len(a)), FSum([i \in 1..Len(a) |-> FRecip(a[i])]))

---------------------------------------------------------------------------
(* The estimators.  Each returns what the call does: raised (an exception  *)
(* leaves the function), ret (the returned pair alpha, gamma) and data     *)
(* (the caller's array after the call).                                    *)

Raise(a) == [raised |-> TRUE, ret |-> <<>>, data |-> a]
Return(alpha, gamma, a) == [raised |-> FALSE, ret |-> <<alpha, gamma>>, data |-> a]

umvue_estimator(data_series) ==
    LET n == Len(data_series) IN
    IF n = 0 THEN Raise(data_series)            \* min() of an empty sequence
    ELSE
    LET x1 == MinOf(data_series)
        scaled == ArrayDiv(data_series, x1)
        triple_dot_alpha == FMul(FromInt(n), FRecip(FSum(ArrayLog(scaled))))
        alpha == FMul(FSub(FromInt(1), FMul(FromInt(2), FRecip(FromInt(n)))),
                      triple_dot_alpha)
    IN  IF n - 1 = 0 THEN Raise(data_series)    \* int 0 ** -1
        ELSE LET gamma == FMul(FSub(FromInt(1),
                                    FMul(FRecip(FromInt(n - 1)),
                                         FRecip(triple_dot_alpha))),
                               x1)
             IN  Return(alpha, gamma, data_series)

ml_estimator_first(data_series) ==
    LET n == Len(data_series) IN
    IF n = 0 THEN Raise(data_series)
    ELSE
    LET gamma == data_series[1]
        scaled == ArrayDiv(data_series, gamma)
        alpha == FMul(FromInt(n), FRecip(FSum(ArrayLog(scaled))))
    IN  Return(alpha, gamma, data_series)

ml_estimator(data_series) ==
    LET n == Len(data_series) IN
    IF n = 0 THEN Raise(data_series)            \* min() of an empty sequence
    ELSE
    LET gamma == MinOf(data_series)
        scaled == ArrayDiv(data_series, gamma)
        alpha == FMul(FromInt(n), FRecip(FSum(ArrayLog(scaled))))
    IN  Return(alpha, gamma, data_series)

mom_estimator(data_series) ==
    LET t == Mean(data_series)
        s2 == Var(data_series)
        s == FSqrt(s2)
        t2 == FMul(t, t)
        alpha == FAdd(FromInt(1), FSqrt(FAdd(FromInt(1), FDiv(t2, s2))))
        root == FSqrt(FAdd(s2, t2))
        gamma == FMul(FDiv(root, FAdd(s, root)), t)
    IN  Return(alpha, gamma, data_series)

mm1_estimator(data_series) ==
    LET s2 == Var(data_series)
        s == FSqrt(s2)
        t2 == FMul(Mean(data_series), Mean(data_series))
        alpha == FAdd(FromInt(1), FSqrt(FAdd(FromInt(1), FDiv(t2, s2))))
        root == FSqrt(FAdd(s2, t2))
        gamma == FSqrt(FDiv(FMul(FAdd(s2, t2), FSub(root, s)), FAdd(s, root)))
    IN  Return(alpha, gamma, data_series)

mm2_estimator(data_series) ==
    LET hm == HMean(data_series)
        t == Mean(data_series)
        alpha == FSqrt(FAdd(FromInt(1), FDiv(hm, t)))
        gamma == FDiv(FMul(FSqrt(FAdd(t, hm)), hm),
                      FAdd(FSqrt(t), FSqrt(FAdd(t, hm))))
    IN  Return(alpha, gamma, data_series)

mm3_estimator_plus(data_series) ==
    LET n == Len(data_series) IN
    IF n = 0 THEN Raise(data_series)
    ELSE
    LET t1 == MinOf(data_series)
        t == Mean(data_series)
        alpha == FDiv(FSub(t1, FMul(FromInt(n), t)),
                      FMul(FromInt(n), FSub(t1, t)))
        gamma == FAdd(t1, FDiv(t1, FMul(FromInt(n), alpha)))
    IN  Return(alpha, gamma, data_series)

mm3_estimator(data_series) ==
    LET n == Len(data_series) IN
    IF n = 0 THEN Raise(data_series)            \* min() of an empty sequence
    ELSE
    LET t1 == MinOf(data_series)
        t == Mean(data_series)
        alpha == FDiv(FSub(t1, FMul(FromInt(n), t)),
                      FMul(FromInt(n), FSub(t1, t)))
        gamma == FSub(t1, FDiv(t1, FMul(FromInt(n), alpha)))
    IN  Return(alpha, gamma, data_series)

mm4_estimator(data_series) ==
    LET n == Len(data_series) IN
    IF n = 0 THEN Raise(data_series)            \* min() of an empty sequence
    ELSE
    LET t1 == MinOf(data_series)
        t == Mean(data_series)
        alpha == FDiv(FMul(FromInt(n - 1), t), FMul(FromInt(n), FSub(t, t1)))
        base == Fin(Quot(n * Scale, n + 1))
        gamma == FMul(t1, FPow(base, FDiv(FromInt(1), alpha)))
    IN  Return(alpha, gamma, data_series)

\* the names in function_names
function_names ==
    <<"umvue_estimator", "ml_estimator", "mom_estimator", "mm1_estimator",
      "mm2_estimator", "mm3_estimator", "mm4_estimator">>

EstimatorNames == {function_names[i] : i \in 1..Len(function_names)}

\* eval(function_name + "(pareto_data)") without the decorator: the function
\* the name is bound to, applied to the array
Apply(name, data_series) ==
    CASE name = "umvue_estimator" -> umvue_estimator(data_series)
      [] name = "ml_estimator" -> ml_estimator(data_series)
      [] name = "mom_estimator" -> mom_estimator(data_series)
      [] name = "mm1_estimator" -> mm1_estimator(data_series)
      [] name = "mm2_estimator" -> mm2_estimator(data_series)
      [] name = "mm3_estimator" -> mm3_estimator(data_series)
      [] name = "mm4_estimator" -> mm4_estimator(data_series)

---------------------------------------------------------------------------
(* The measure_time decorator *)

\* durations a call can be measured to take (end - start), in clock ticks
Durations == {FromInt(d) : d \in 1..MaxDuration}

EmptyDict == [n \in {} |-> <<>>]

\* lines 24-27, first statement of each branch, with the entry overwritten
StoreOverwrite(dict, name, record) ==
    IF name \notin DOMAIN dict
    THEN [n \in DOMAIN dict \cup {name} |-> IF n = name THEN <<record>> ELSE dict[n]]
    ELSE [dict EXCEPT ![name] = <<record>>]

\* lines 24-27 with the record put in front of the list
StorePrepend(dict, name, record) ==
    IF name \notin DOMAIN dict
    THEN [n \in DOMAIN dict \cup {name} |-> IF n = name THEN <<record>> ELSE dict[n]]
    ELSE [dict EXCEPT ![name] = <<record>> \o @]

\* lines 24-27: the dict after the record has been stored under the name
Store(dict, name, record) ==
    IF name \notin DOMAIN dict
    THEN [n \in DOMAIN dict \cup {name} |-> IF n = name THEN <<record>> ELSE dict[n]]
    ELSE [dict EXCEPT ![name] = Append(@, record)]

\* insertion order of the keys after the same store
StoreKey(order, dict, name) ==
    IF name \notin DOMAIN dict THEN Append(order, name) ELSE order

\* a wrapper that stores a record before it knows the call succeeded
WrapperEager(dict, name, r, duration) == Store(dict, name, <<r.ret, duration>>)

\* wrapper, lines 19-28: the dict after a call whose body did r
Wrapper(dict, name, r, duration) ==
    IF r.raised THEN dict ELSE Store(dict, name, <<r.ret, duration>>)

\* what the caller of the wrapper gets: the exception or (result, duration)
Outcome(name, arg, r, duration) ==
    [name |-> name, arg |-> arg, raised |-> r.raised,
     ret |-> IF r.raised THEN <<>> ELSE <<r.ret, duration>>]

NoCall == [name |-> "", arg |-> <<>>, raised |-> FALSE, ret |-> <<>>]

\* one call name(pareto_data) of a decorated estimator whose body does r
WrappedCall(name, r, duration) ==
    /\ results_dict' = Wrapper(results_dict, name, r, duration)
    /\ key_order' = IF r.raised THEN key_order
                    ELSE StoreKey(key_order, results_dict, name)
    /\ pareto_data' = r.data
    /\ last' = Outcome(name, pareto_data, r, duration)

---------------------------------------------------------------------------
(* The script: lines 222-247 *)

\* get_pareto_data: the arrays pareto.rvs can return, values >= location
get_pareto_data(shape, location, number_of_data) ==
    IF shape > 0 /\ location > 0
    THEN {ArrayOf(s) : s \in [1..number_of_data -> location..(location + MaxSpread)]}
    ELSE {}

experiments_number == MaxExperiments
data_quantity == MaxData
LoopNames == SubSeq(function_names, 1, MaxFunctions)

\* pareto_estimators.py does not import graphs_tables: no table function runs
TableIdle ==
    /\ tfn = "none"
    /\ params = <<>>
    /\ sample_sizes = <<>>
    /\ pickles = EmptyDict
    /\ results = EmptyDict
    /\ tex_file = <<>>
    /\ tpc = "idle"
    /\ size_i = 1
    /\ parset_j = 1

\* line 232
Draw ==
    /\ pc = "loop"
    /\ experiment < experiments_number
    /\ fidx <= Len(LoopNames)
    /\ pareto_data' \in get_pareto_data(pareto_shape, pareto_location, data_quantity)
    /\ draws' = draws + 1
    /\ pc' = "eval"
    /\ UNCHANGED <<results_dict, key_order, last, experiment, fidx, used,
                   avg_results, agg_pos>>
    /\ UNCHANGED tvars

\* line 233: an exception of the estimator ends the script
Eval ==
    /\ pc = "eval"
    /\ LET r == Apply(LoopNames[fidx], pareto_data) IN
       \E duration \in Durations : WrappedCall(LoopNames[fidx], r, duration)
    /\ used' = Append(used, pareto_data)
    /\ fidx' = fidx + 1
    /\ pc' = IF last'.raised THEN "crashed" ELSE "loop"
    /\ UNCHANGED <<experiment, draws, avg_results, agg_pos>>
    /\ UNCHANGED tvars

\* lines 234-235 and the next turn of the outer loop
EndExperiment ==
    /\ pc = "loop"
    /\ experiment < experiments_number
    /\ fidx > Len(LoopNames)
    /\ experiment' = experiment + 1
    /\ fidx' = 1
    /\ used' = <<>>
    /\ UNCHANGED <<results_dict, key_order, pareto_data, last, pc, draws,
                   avg_results, agg_pos>>
    /\ UNCHANGED tvars

\* line 237
StartAggregation ==
    /\ pc = "loop"
    /\ experiment = experiments_number
    /\ avg_results' = EmptyDict
    /\ agg_pos' = 1
    /\ pc' = "aggregate"
    /\ UNCHANGED <<results_dict, key_order, pareto_data, last, experiment, fidx,
                   draws, used>>
    /\ UNCHANGED tvars

\* "scipy" in k
ContainsScipy(k) == k = "maximum_likelihood_estimator_scipy"

\* k.replace("_estimator", "")
StripEstimator(k) ==
    CASE k = "umvue_estimator" -> "umvue"
      [] k = "ml_estimator" -> "ml"
      [] k = "mom_estimator" -> "mom"
      [] k = "mm1_estimator" -> "mm1"
      [] k = "mm2_estimator" -> "mm2"
      [] k = "mm3_estimator" -> "mm3"
      [] k = "mm4_estimator" -> "mm4"
      [] k = "maximum_likelihood_estimator_scipy" -> "maximum_likelihood_scipy"
      [] OTHER -> k

\* lines 240-242: the durations of a list of records, in order
TotalTime(records) == [i \in 1..Len(records) |-> records[i][2]]

\* line 243, right-hand side
Summary(total_time) == <<Mean(total_time), FSqrt(Var(total_time)), MaxOf(total_time)>>

\* an aggregation that reads the records of one and the same key for every key
AggregateOneKey(dict, k) == Summary(TotalTime(dict[CHOOSE j \in DOMAIN dict : TRUE]))

\* lines 240-243 for key k
Aggregate(dict, k) == Summary(TotalTime(dict[k]))

\* lines 238-243, one turn of the loop; np.max raises on an empty list
AggregateKey ==
    /\ pc = "aggregate"
    /\ agg_pos <= Len(key_order)
    /\ LET k == key_order[agg_pos] IN
       IF ContainsScipy(k)
       THEN UNCHANGED <<avg_results, pc>>
       ELSE IF Len(results_dict[k]) = 0
       THEN pc' = "crashed" /\ UNCHANGED avg_results
       ELSE /\ avg_results' =
                  [n \in DOMAIN avg_results \cup {StripEstimator(k)} |->
                      IF n = StripEstimator(k)
                      THEN Aggregate(results_dict, k)
                      ELSE avg_results[n]]
            /\ UNCHANGED pc
    /\ agg_pos' = agg_pos + 1
    /\ UNCHANGED <<results_dict, key_order, pareto_data, last, experiment, fidx,
                   draws, used>>
    /\ UNCHANGED tvars

\* lines 245-247: the reporters read avg_results and leave it as it is
Report ==
    /\ pc = "aggregate"
    /\ agg_pos > Len(key_order)
    /\ pc' = "done"
    /\ UNCHANGED <<results_dict, key_order, pareto_data, last, experiment, fidx,
                   draws, used, avg_results, agg_pos>>
    /\ UNCHANGED tvars

Init ==
    /\ results_dict = EmptyDict
    /\ key_order = <<>>
    /\ pareto_data = <<>>
    /\ last = NoCall
    /\ pc = "loop"
    /\ experiment = 0
    /\ fidx = 1
    /\ draws = 0
    /\ used = <<>>
    /\ avg_results = EmptyDict
    /\ agg_pos = 1
    /\ TableIdle

Next == Draw \/ Eval \/ EndExperiment \/ StartAggregation \/ AggregateKey \/ Report

Spec == Init /\ [][Next]_vars

---------------------------------------------------------------------------
(* Direct calls of the decorated estimators, on any array the caller holds *)

Arrays(maxlen, maxval) ==
    {ArrayOf(s) : s \in UNION {[1..n -> 1..maxval] : n \in 0..maxlen}}

RECURSIVE CountRecords(_, _)
\* number of records in the lists of dict under the keys of order
CountRecords(dict, order) ==
    IF Len(order) = 0 THEN 0
    ELSE Len(dict[order[1]]) + CountRecords(dict, Tail(order))

InitCall ==
    /\ results_dict = EmptyDict
    /\ key_order = <<>>
    /\ pareto_data \in Arrays(MaxCallLen, MaxCallVal)
    /\ last = NoCall
    /\ pc = "call"
    /\ experiment = 0
    /\ fidx = 1
    /\ draws = 0
    /\ used = <<>>
    /\ avg_results = EmptyDict
    /\ agg_pos = 1
    /\ TableIdle

\* name(pareto_data) for a decorated estimator, lines 17-28
DirectCall ==
    /\ pc = "call"
    /\ CountRecords(results_dict, key_order) < MaxCalls
    /\ \E name \in EstimatorNames :
          LET r == Apply(name, pareto_data) IN
          \E duration \in Durations : WrappedCall(name, r, duration)
    /\ UNCHANGED <<pc, experiment, fidx, draws, used, avg_results, agg_pos>>
    /\ UNCHANGED tvars

NextCall == DirectCall

SpecCall == InitCall /\ [][NextCall]_vars

---------------------------------------------------------------------------
(* The estimator functions themselves (f in line 20), on any array *)

InitEst ==
    /\ results_dict = EmptyDict
    /\ key_order = <<>>
    /\ pareto_data \in Arrays(MaxLen, MaxVal)
    /\ last = NoCall
    /\ pc = "estimate"
    /\ experiment = 0
    /\ fidx = 1
    /\ draws = 0
    /\ used = <<>>
    /\ avg_results = EmptyDict
    /\ agg_pos = 1
    /\ TableIdle

\* f(pareto_data): last holds the returned pair (alpha, gamma) or the exception
Estimate ==
    /\ pc = "estimate"
    /\ \E name \in EstimatorNames :
          LET r == Apply(name, pareto_data) IN
          /\ last' = [name |-> name, arg |-> pareto_data, raised |-> r.raised,
                      ret |-> r.ret]
          /\ pareto_data' = r.data
    /\ UNCHANGED <<results_dict, key_order, pc, experiment, fidx, draws, used,
                   avg_results, agg_pos>>
    /\ UNCHANGED tvars

NextEst == Estimate

SpecEst == InitEst /\ [][NextEst]_vars

---------------------------------------------------------------------------
(* graphs_tables.py: the two tables of MSE errors.  A file is the sequence  *)
(* of the strings written to it; a written string is a command with the     *)
(* formatted values put into it, each value a sequence of characters.       *)

MaxParams == 2
MaxSizes == 2
MaxMse == 2

\* keys of the dict literal, in insertion order
ResultKeys ==
    <<"size", "params", "umvue", "ml", "mom", "mm1", "mm2", "mm3", "mm4">>

\* list(results.keys())[2:]
MethodKeys == SubSeq(ResultKeys, 3, Len(ResultKeys))

\* results = {"size": [], "params": [], "umvue": [], ...}
EmptyResults == [k \in {ResultKeys[i] : i \in 1..Len(ResultKeys)} |-> <<>>]

Digit(d) == <<"0", "1", "2", "3", "4", "5", "6", "7", "8", "9">>[d + 1]

RECURSIVE StrInt(_)
\* str(n) of a non-negative int
StrInt(n) ==
    IF n < 10 THEN <<Digit(n)>> ELSE Append(StrInt(n \div 10), Digit(n % 10))

\* str([])
StrEmptyList == <<"[", "]">>

RECURSIVE Pow10(_)
Pow10(e) == IF e = 0 THEN 1 ELSE 10 * Pow10(e - 1)

RECURSIVE NumDigits(_)
NumDigits(n) == IF n < 10 THEN 1 ELSE 1 + NumDigits(n \div 10)

\* three significant digits of a > 0 and its decimal exponent, a counted in
\* units of 1/Scale; a tie goes to the even digit, as it does for a float
\* that holds the tie exactly
Mantissa(a) ==
    LET d    == NumDigits(a)
        cut  == IF d > 3 THEN Pow10(d - 3) ELSE 1
        q    == IF d > 3 THEN a \div cut ELSE a * Pow10(3 - d)
        rest == IF d > 3 THEN a % cut ELSE 0
        up   == \/ 2 * rest > cut
                \/ 2 * rest = cut /\ q % 2 = 1
        m    == IF up THEN q + 1 ELSE q
        e    == d - NumDigits(Scale)
    IN  IF m = 1000 THEN [m |-> 100, e |-> e + 1] ELSE [m |-> m, e |-> e]

\* "{:.2e}".format(x)
Format2e(x) ==
    CASE x.k = "nan"  -> <<"n", "a", "n">>
      [] x.k = "inf"  -> <<"i", "n", "f">>
      [] x.k = "ninf" -> <<"-", "i", "n", "f">>
      [] OTHER ->
           LET me == IF x.v = 0 THEN [m |-> 0, e |-> 0] ELSE Mantissa(Abs(x.v))
               sg == IF x.v < 0 THEN <<"-">> ELSE <<>>
               ex == Abs(me.e)
           IN  sg \o <<Digit(me.m \div 100), ".", Digit((me.m \div 10) % 10),
                       Digit(me.m % 10), "e",
                       IF me.e < 0 THEN "-" ELSE "+">>
                  \o (IF ex < 10 THEN <<"0">> ELSE <<>>) \o StrInt(ex)

\* f.writelines(text + "\n")
Line(text) == [cmd |-> text, val |-> <<>>]

\* f.writelines(r"\multirow{7}{*}{" + s + r"} & ")
Multirow(s) == [cmd |-> "\\multirow{7}{*}{", val |-> <<s>>]

\* the line of one method: the umvue line continues the three multirow cells
Row(key, mse) ==
    [cmd |-> IF key = "umvue" THEN "{} & {:.2e} & {:.2e} \\\\"
             ELSE "& & & {} & {:.2e} & {:.2e} \\\\",
     val |-> << <<key>>, Format2e(mse[1]), Format2e(mse[2]) >>]

Header ==
    << Line("\\begin{table}"),
       Line("\\centering"),
       Line("\\begin{tabular}{| c | c  c | c | c c |}"),
       Line("\\hline"),
       Line("\\multirow{2}{*}{n} & \\multicolumn{2}{| c |}{True Values} & \\multirow{2}{*}{Method} &  \\multicolumn{2}{| c |}{MSE} \\\\"),
       Line("& $\\alpha$ & $\\gamma$ & & $\\alpha$ & $\\gamma$ \\\\"),
       Line("\\hline") >>

Footer == << Line("\\end{tabular}"), Line("\\end{table}") >>

\* the three cells and the seven method lines of one (size, parset) pair
Block(size, parset, mses) ==
    << Multirow(StrInt(size)), Multirow(StrInt(parset[1])),
       Multirow(StrInt(parset[2])) >>
    \o [m \in 1..Len(MethodKeys) |-> Row(MethodKeys[m], mses[MethodKeys[m]])]
    \o << Line("\\hline") >>

RECURSIVE BlocksFrom(_, _)
\* for i in range(len(results["size"])), from i on (1-based)
BlocksFrom(res, i) ==
    IF i > Len(res["size"]) THEN <<>>
    ELSE Block(res["size"][i], res["params"][i],
               [k \in {MethodKeys[m] : m \in 1..Len(MethodKeys)} |-> res[k][i]])
         \o BlocksFrom(res, i + 1)

\* the parameter sets and sample sizes the callers choose from
ParsetValues == {<<2 * a, 1>> : a \in 1..MaxParams}
SizeValues == {50 * n : n \in 1..MaxSizes}

SeqsOf(S, maxlen) == UNION {[1..n -> S] : n \in 0..maxlen}

\* a pickled dict: method name -> [mse_alpha, mse_gamma], in eighths
PickleDict(base) ==
    [k \in {MethodKeys[m] : m \in 1..Len(MethodKeys)} |->
        LET m == CHOOSE i \in 1..Len(MethodKeys) : MethodKeys[i] = k
        IN  <<Fin((Scale \div 8) * (base + m)), Fin((Scale \div 8) * (2 * base + m))>>]

\* pickle.load of "errors_params_{}_{}_samplesize_{}.pickle"
LoadPickle(parset, size) == pickles[<<parset, size>>]

AllFn == "table_error_comparison"
SplitFn == "table_error_comparison_split"

InitTable ==
    /\ results_dict = EmptyDict
    /\ key_order = <<>>
    /\ pareto_data = <<>>
    /\ last = NoCall
    /\ pc = "tables"
    /\ experiment = 0
    /\ fidx = 1
    /\ draws = 0
    /\ used = <<>>
    /\ avg_results = EmptyDict
    /\ agg_pos = 1
    /\ tfn \in {AllFn, SplitFn}
    /\ params \in SeqsOf(ParsetValues, MaxParams)
    /\ sample_sizes \in SeqsOf(SizeValues, MaxSizes)
    /\ \E seed \in 1..MaxMse :
          pickles = [f \in ParsetValues \X SizeValues |->
                        PickleDict(seed + f[1][1] + f[2])]
    /\ results = EmptyResults
    /\ tex_file \in {<<>>, Footer}
    /\ tpc = IF tfn = SplitFn THEN "start" ELSE "load"
    /\ size_i = 1
    /\ parset_j = 1

\* table_error_comparison, one turn of the inner loop
LoadAll ==
    /\ tfn = AllFn
    /\ tpc = "load"
    /\ size_i <= Len(sample_sizes)
    /\ parset_j <= Len(params)
    /\ LET size   == sample_sizes[size_i]
           parset == params[parset_j]
           dict   == LoadPickle(parset, size)
       IN  results' = [k \in DOMAIN results |->
                          IF k = "size" THEN Append(results[k], size)
                          ELSE IF k = "params" THEN Append(results[k], parset)
                          ELSE IF k \in DOMAIN dict THEN Append(results[k], dict[k])
                          ELSE results[k]]
    /\ IF parset_j < Len(params)
       THEN parset_j' = parset_j + 1 /\ UNCHANGED size_i
       ELSE parset_j' = 1 /\ size_i' = size_i + 1
    /\ UNCHANGED <<tfn, params, sample_sizes, pickles, tex_file, tpc>>
    /\ UNCHANGED <<results_dict, key_order, pareto_data, last, pc, experiment,
                   fidx, draws, used, avg_results, agg_pos>>

\* table_error_comparison, after the loops: open(file_name, "w") and write
WriteAll ==
    /\ tfn = AllFn
    /\ tpc = "load"
    /\ size_i > Len(sample_sizes) \/ Len(params) = 0
    /\ tex_file' = Header \o BlocksFrom(results, 1) \o Footer
    /\ tpc' = "done"
    /\ UNCHANGED <<tfn, params, sample_sizes, pickles, results, size_i, parset_j>>
    /\ UNCHANGED <<results_dict, key_order, pareto_data, last, pc, experiment,
                   fidx, draws, used, avg_results, agg_pos>>

\* table_error_comparison_split: open(file_name, "w") with an empty body
Truncate ==
    /\ tfn = SplitFn
    /\ tpc = "start"
    /\ tex_file' = <<>>
    /\ tpc' = IF Len(sample_sizes) = 0 THEN "done" ELSE "load"
    /\ UNCHANGED <<tfn, params, sample_sizes, pickles, results, size_i, parset_j>>
    /\ UNCHANGED <<results_dict, key_order, pareto_data, last, pc, experiment,
                   fidx, draws, used, avg_results, agg_pos>>

\* table_error_comparison_split, one turn of the inner loop
LoadSplit ==
    /\ tfn = SplitFn
    /\ tpc = "load"
    /\ size_i <= Len(sample_sizes)
    /\ parset_j <= Len(params)
    /\ LET size   == sample_sizes[size_i]
           parset == params[parset_j]
           dict   == LoadPickle(parset, size)
       IN  results' = [k \in DOMAIN results |->
                          IF k = "size" THEN size
                          ELSE IF k = "params" THEN parset
                          ELSE IF k \in DOMAIN dict THEN dict[k]
                          ELSE results[k]]
    /\ parset_j' = parset_j + 1
    /\ UNCHANGED <<tfn, params, sample_sizes, pickles, tex_file, tpc, size_i>>
    /\ UNCHANGED <<results_dict, key_order, pareto_data, last, pc, experiment,
                   fidx, draws, used, avg_results, agg_pos>>

\* table_error_comparison_split, after the inner loop of one size:
\* open(file_name, "a") and write one table.  With no parameter set
\* results["size"] and results["params"] are still [], and
\* results["params"][0] raises IndexError after the first cell.
WriteSplit ==
    /\ tfn = SplitFn
    /\ tpc = "load"
    /\ size_i <= Len(sample_sizes)
    /\ parset_j > Len(params)
    /\ IF Len(params) = 0
       THEN /\ tex_file' = tex_file \o Header \o <<Multirow(StrEmptyList)>>
            /\ tpc' = "crashed"
            /\ UNCHANGED <<size_i, parset_j>>
       ELSE /\ tex_file' = tex_file \o Header
                           \o Block(results["size"], results["params"], results)
                           \o Footer
            /\ size_i' = size_i + 1
            /\ parset_j' = 1
            /\ tpc' = IF size_i = Len(sample_sizes) THEN "done" ELSE "load"
    /\ UNCHANGED <<tfn, params, sample_sizes, pickles, results>>
    /\ UNCHANGED <<results_dict, key_order, pareto_data, last, pc, experiment,
                   fidx, draws, used, avg_results, agg_pos>>

NextTable == LoadAll \/ WriteAll \/ Truncate \/ LoadSplit \/ WriteSplit

SpecTable == InitTable /\ [][NextTable]_vars

---------------------------------------------------------------------------
(* Properties *)

RecordCount(name) ==
    IF name \in DOMAIN results_dict THEN Len(results_dict[name]) ELSE 0

Range(a) == {a[i] : i \in 1..Len(a)}

AllEqual(a) == \A i, j \in 1..Len(a) : a[i] = a[j]

\* C1: after k completed experiments every estimator of the loop has exactly k
\* records (one more for those already called in the running experiment), and
\* when the loop is over every one has exactly experiments_number records.
C1_RecordsPerExperiment ==
    /\ pc \in {"loop", "eval"} =>
          \A i \in 1..Len(LoopNames) :
             RecordCount(LoopNames[i]) = experiment + (IF i < fidx THEN 1 ELSE 0)
    /\ pc \in {"aggregate", "done"} =>
          \A i \in 1..Len(LoopNames) :
             RecordCount(LoopNames[i]) = experiments_number

C1_Witness ==
    /\ pc = "done"
    /\ experiments_number >= 2
    /\ \A i \in 1..Len(LoopNames) : RecordCount(LoopNames[i]) = experiments_number

\* C2: the sampler is called once per experiment (at most experiment + 1 calls
\* while experiment number `experiment` runs) and all estimators called in one
\* experiment receive the same sample.
C2_OneSamplePerExperiment ==
    /\ draws <= experiment + 1
    /\ \A i, j \in 1..Len(used) : used[i] = used[j]

\* C3: a successful call returns (result, duration), where result is what the
\* estimator returned, and leaves that pair as the last element of the entry
\* of the estimator's name: the old entry with the pair appended, or a new
\* one-element entry when the name was absent.
C3_CallAppendsRecord ==
    [][ ~last'.raised =>
          LET name == last'.name
              record == last'.ret
          IN  /\ name \in DOMAIN results_dict'
              /\ record[1] = Apply(name, last'.arg).ret
              /\ record[2] \in Durations
              /\ results_dict'[name] =
                    IF name \in DOMAIN results_dict
                    THEN Append(results_dict[name], record)
                    ELSE <<record>>
              /\ key_order' =
                    IF name \in DOMAIN results_dict
                    THEN key_order ELSE Append(key_order, name) ]_vars

C3_Witness ==
    /\ ~last.raised
    /\ last.name \in DOMAIN results_dict
    /\ Len(results_dict[last.name]) = 2
    /\ results_dict[last.name][1] # results_dict[last.name][2]
    /\ results_dict[last.name][2] = last.ret

\* C4: a call in which the estimator raises hands the exception to the caller
\* and leaves the accumulation dict exactly as it was.
C4_FailedCallKeepsStore ==
    [][ Apply(last'.name, last'.arg).raised =>
          /\ last'.raised
          /\ results_dict' = results_dict
          /\ key_order' = key_order ]_vars

C4_Witness ==
    /\ last.raised
    /\ Apply(last.name, last.arg).raised
    /\ key_order # <<>>
    /\ last.name \notin DOMAIN results_dict

\* C5: when the aggregation is over, avg_results has exactly one record per
\* name in results_dict, under the shortened name, and it is the mean, the
\* population standard deviation and the maximum of that name's durations.
C5_AggregatePerName ==
    pc = "done" =>
       /\ DOMAIN avg_results = {StripEstimator(k) : k \in DOMAIN results_dict}
       /\ \A k \in DOMAIN results_dict :
             LET d == [i \in 1..Len(results_dict[k]) |-> results_dict[k][i][2]]
                 a == avg_results[StripEstimator(k)]
             IN  /\ a[1] = Mean(d)
                 /\ a[2] = FSqrt(Var(d))
                 /\ a[3] \in Range(d)
                 /\ \A i \in 1..Len(d) : FLeq(d[i], a[3])

C5_Witness ==
    /\ pc = "done"
    /\ Cardinality(DOMAIN results_dict) >= 2
    /\ \E k1, k2 \in DOMAIN results_dict :
          avg_results[StripEstimator(k1)] # avg_results[StripEstimator(k2)]

\* C7: the method-of-moments estimator raises on a sample of two or more equal
\* values (zero variance) and returns no estimate.
C7_ZeroVarianceRaises ==
    (last.name = "mom_estimator" /\ Len(last.arg) >= 2 /\ AllEqual(last.arg))
       => last.raised

\* C8: a call of an estimator with a sample of fewer than 2 values raises.
C8_ShortSampleRaises ==
    (last.name \in EstimatorNames /\ Len(last.arg) < 2) => last.raised

\* C9: on a sample of 2 or more values ml_estimator returns as gamma the least
\* value of the sample, and the caller's array is left as it was.
C9_MlLocationIsMinimum ==
    (last.name = "ml_estimator" /\ Len(last.arg) >= 2) =>
       /\ ~last.raised
       /\ last.ret[2] \in Range(last.arg)
       /\ \A i \in 1..Len(last.arg) : FLeq(last.ret[2], last.arg[i])
       /\ pareto_data = last.arg

C9_Witness ==
    /\ last.name = "ml_estimator"
    /\ last.arg = ArrayOf(<<2, 1, 3>>)
    /\ ~last.raised
    /\ last.ret[2] = FromInt(1)
    /\ pareto_data = last.arg

LocationBoundedNames ==
    {"umvue_estimator", "ml_estimator", "mm3_estimator", "mm4_estimator"}

C11_CallOnlyAddsOneRecord ==
    [][ /\ DOMAIN results_dict \subseteq DOMAIN results_dict'
        /\ \A k \in DOMAIN results_dict :
              /\ Len(results_dict'[k]) >= Len(results_dict[k])
              /\ \A i \in 1..Len(results_dict[k]) :
                    results_dict'[k][i] = results_dict[k][i]
              /\ k # last'.name => results_dict'[k] = results_dict[k]
        /\ DOMAIN results_dict' \subseteq DOMAIN results_dict \cup {last'.name}
        /\ \A k \in DOMAIN results_dict' : Len(results_dict'[k]) >= 1
        /\ last'.name \in DOMAIN results_dict =>
              Len(results_dict'[last'.name]) <= Len(results_dict[last'.name]) + 1
        /\ {key_order'[i] : i \in 1..Len(key_order')} = DOMAIN results_dict' ]_vars

C11_Witness ==
    /\ Len(key_order) = 2
    /\ last.name = key_order[2]
    /\ ~last.raised
    /\ Len(results_dict[key_order[1]]) = 1
    /\ Len(results_dict[key_order[2]]) = 1

\* the file holds, for every sample size and every parameter set, the block
\* made from the pickle of that pair
Contains(file, block) ==
    \E i \in 0..(Len(file) - Len(block)) :
        SubSeq(file, i + 1, i + Len(block)) = block

ReportsEveryAggregate ==
    \A i \in 1..Len(sample_sizes), j \in 1..Len(params) :
        Contains(tex_file,
                 Block(sample_sizes[i], params[j],
                       LoadPickle(params[j], sample_sizes[i])))

\* table_error_comparison writes the block of every (size, parset) pair
AllReportsEveryAggregate ==
    (tfn = AllFn /\ tpc = "done") => ReportsEveryAggregate

\* C12: when table_error_comparison_split has returned, the file holds, for
\* every sample size in sample_sizes and every parameter set in params, the
\* block of seven method rows with the true parameter values and the MSE
\* pairs loaded from the pickle of that pair, as table_error_comparison
\* writes it.
C12_SplitReportsEveryAggregate ==
    (tfn = SplitFn /\ tpc = "done") => ReportsEveryAggregate

===========================================================================
